---- MODULE Spec2Model ----
(***************************************************************************)
(* Model of the VideoConverter pipeline of src/src/main.rs:                *)
(*   parse_stream_metadata -> get_mappings -> get_codecs ->                *)
(*   print_codec_mapping, run once by main on one opened container.        *)
(* Stream indices are zero-based as in the source; TLA+ sequences are      *)
(* one-based, so the Rust expression parsed[i] is parsed[i + 1] here.      *)
(***************************************************************************)
EXTENDS Integers, Sequences, FiniteSets, TLC

\* Largest number of streams of a container that is explored.
MaxStreams == 3

\* Option<T>: None is the empty sequence, Some(x) the one-element sequence.
None == <<>>
Some(x) == <<x>>

(***************************************************************************)
(* The facts the demuxer exposes for one stream of the opened container:   *)
(* medium (codec_context.medium()), id (codec_par.id()), field_order (the  *)
(* result of opening the video decoder and reading field_order, "Err" when *)
(* that fails), profile (the result of opening the audio decoder and       *)
(* reading its profile, "Err" when that fails) and language (the           *)
(* "language" entry of the metadata dictionary).                           *)
(***************************************************************************)
Facts(m, c, fo, pr, lang) ==
    [medium |-> m, id |-> c, field_order |-> fo, profile |-> pr, language |-> lang]

VideoFacts ==
    { Facts("Video", "H264", "AV_FIELD_PROGRESSIVE", "Unknown", None),
      Facts("Video", "H264", "Err", "Unknown", None),
      Facts("Video", "HEVC", "AV_FIELD_TT", "Unknown", None),
      Facts("Video", "MPEG2VIDEO", "AV_FIELD_BB", "Unknown", None),
      Facts("Video", "MPEG2VIDEO", "AV_FIELD_UNKNOWN", "Unknown", None) }

AudioFacts ==
    { Facts("Audio", "FLAC", "AV_FIELD_UNKNOWN", "Unknown", Some("eng")),
      Facts("Audio", "AAC", "AV_FIELD_UNKNOWN", "AAC_LOW", None),
      Facts("Audio", "TRUEHD", "AV_FIELD_UNKNOWN", "Unknown", Some("eng")),
      Facts("Audio", "DTS", "AV_FIELD_UNKNOWN", "DTS_HD_MA", Some("fre")),
      Facts("Audio", "DTS", "AV_FIELD_UNKNOWN", "DTS_ES", Some("eng")),
      Facts("Audio", "DTS", "AV_FIELD_UNKNOWN", "Err", None),
      Facts("Audio", "AC3", "AV_FIELD_UNKNOWN", "Unknown", Some("ENG")) }

SubtitleFacts ==
    { Facts("Subtitle", "HDMV_PGS_SUBTITLE", "AV_FIELD_UNKNOWN", "Unknown", Some("eng")),
      Facts("Subtitle", "HDMV_PGS_SUBTITLE", "AV_FIELD_UNKNOWN", "Unknown", Some("fre")),
      Facts("Subtitle", "DVD_SUBTITLE", "AV_FIELD_UNKNOWN", "Unknown", None),
      Facts("Subtitle", "SSA", "AV_FIELD_UNKNOWN", "Unknown", Some("eng")),
      Facts("Subtitle", "SUBRIP", "AV_FIELD_UNKNOWN", "Unknown", Some("en")) }

OtherFacts ==
    { Facts("Data", "BIN_DATA", "AV_FIELD_UNKNOWN", "Unknown", None),
      Facts("Attachment", "TTF", "AV_FIELD_UNKNOWN", "Unknown", Some("eng")) }

StreamFacts == VideoFacts \cup AudioFacts \cup SubtitleFacts \cup OtherFacts

\* The containers of n streams; those of at most MaxStreams are explored.
\* The stream at position k of the container has stream.index() = k - 1.
Containers(n) == [1..n -> StreamFacts]

VARIABLES file, pc, parsed, mappings, codecs, report, stderr

vars == <<file, pc, parsed, mappings, codecs, report, stderr>>

EmptyMap == [i \in {} |-> None]

Insert(map, k, v) ==
    [x \in (DOMAIN map) \cup {k} |-> IF x = k THEN v ELSE map[x]]

\* Collecting a chain of maps into one HashMap: a later entry replaces an
\* earlier one with the same key.
Chain(a, b) ==
    [x \in (DOMAIN a) \cup (DOMAIN b) |-> IF x \in DOMAIN b THEN b[x] ELSE a[x]]

(***************************************************************************)
(* Stream Classifier                                                       *)
(***************************************************************************)
\* Video::new: the match on the decoder's field order.
VideoFieldOrder(fo) ==
    CASE fo = "AV_FIELD_PROGRESSIVE" -> "Progressive"
      [] fo = "AV_FIELD_TT" -> "Interlaced"
      [] fo = "AV_FIELD_TB" -> "Interlaced"
      [] fo = "AV_FIELD_BT" -> "Interlaced"
      [] fo = "AV_FIELD_BB" -> "Interlaced"
      [] fo = "AV_FIELD_UNKNOWN" -> "Unknown"
      [] fo = "Err" -> "Unknown"

\* Video::new: what it writes to stderr.
VideoNewLog(index, s) ==
    IF s.field_order = "Err"
    THEN << <<"Error getting field order for stream", index>> >>
    ELSE << >>

VideoNew(index, s) ==
    [kind |-> "Video", index |-> index, codec |-> s.id,
     field_order |-> VideoFieldOrder(s.field_order)]

\* Audio::new: the match on the decoder's profile.
AudioProfile(pr) ==
    CASE pr = "Unknown" -> None
      [] pr = "Err" -> None
      [] OTHER -> Some(pr)

AudioNew(index, s) ==
    [kind |-> "Audio", index |-> index, codec |-> s.id,
     lang |-> s.language, profile |-> AudioProfile(s.profile)]

SubtitleNew(index, s) ==
    [kind |-> "Subtitle", index |-> index, codec |-> s.id, lang |-> s.language]

\* Faulty variant: a stream without a language tag is not classified.
ClassifyTaggedOnly(index, s) ==
    CASE s.medium = "Video" -> << VideoNew(index, s) >>
      [] s.medium = "Audio" /\ s.language # None -> << AudioNew(index, s) >>
      [] s.medium = "Subtitle" /\ s.language # None -> << SubtitleNew(index, s) >>
      [] OTHER -> << >>

\* The body of the loop of parse_stream_metadata: what one stream appends
\* to out.
Classify(index, s) ==
    CASE s.medium = "Video" -> << VideoNew(index, s) >>
      [] s.medium = "Audio" -> << AudioNew(index, s) >>
      [] s.medium = "Subtitle" -> << SubtitleNew(index, s) >>
      [] OTHER -> << >>

ClassifyLog(index, s) ==
    IF s.medium = "Video" THEN VideoNewLog(index, s) ELSE << >>

\* parse_stream_metadata: the loop over file.streams(), from position k on.
RECURSIVE ParseFrom(_, _, _)
ParseFrom(f, k, acc) ==
    IF k > Len(f)
    THEN acc
    ELSE ParseFrom(f, k + 1,
                   [out |-> acc.out \o Classify(k - 1, f[k]),
                    err |-> acc.err \o ClassifyLog(k - 1, f[k])])

parse_stream_metadata(f) == ParseFrom(f, 1, [out |-> << >>, err |-> << >>])

(***************************************************************************)
(* Stream Selector                                                         *)
(***************************************************************************)
IsVideo(s) == s.kind = "Video"
IsAudio(s) == s.kind = "Audio"
IsSubtitle(s) == s.kind = "Subtitle"
IsEngAudio(s) == s.kind = "Audio" /\ s.lang = Some("eng")
IsEngSubtitle(s) == s.kind = "Subtitle" /\ s.lang = Some("eng")

Indexes(seq) == [k \in 1..Len(seq) |-> seq[k].index]

\* Faulty variant: the position in the classified list is pushed, not the index.
RECURSIVE PositionsFrom(_, _)
PositionsFrom(p, k) ==
    IF k > Len(p) THEN << >>
    ELSE (IF IsVideo(p[k]) THEN << k - 1 >> ELSE << >>) \o PositionsFrom(p, k + 1)

video_positions(p) == PositionsFrom(p, 1)

\* video_mappings after the first loop of get_mappings.
video_mappings(p) == Indexes(SelectSeq(p, IsVideo))

\* Faulty variant: no fallback to all audio streams.
audio_mappings_no_fallback(p) == Indexes(SelectSeq(p, IsEngAudio))

\* audio_mappings after the first loop and the audio fallback loop.
audio_mappings(p) ==
    LET eng == Indexes(SelectSeq(p, IsEngAudio))
    IN  IF Len(eng) = 0 THEN Indexes(SelectSeq(p, IsAudio)) ELSE eng

\* subtitle_mappings after the first loop and the subtitle fallback loop.
subtitle_mappings(p) ==
    LET eng == Indexes(SelectSeq(p, IsEngSubtitle))
    IN  IF Len(eng) = 0 THEN Indexes(SelectSeq(p, IsSubtitle)) ELSE eng

\* Faulty variant: only more than one video stream is rejected.
too_many_videos(p) == Len(video_mappings(p)) > 1

\* The check on the number of video streams that ends the process.
bad_video_count(p) == Len(video_mappings(p)) # 1

\* Faulty variant: the audio group is chained first.
audio_first(v, a, s) == a \o v \o s

\* The chain that builds the returned vector.
chain_mappings(v, a, s) == v \o (a \o s)

get_mappings_result(p) ==
    chain_mappings(video_mappings(p), audio_mappings(p), subtitle_mappings(p))

(***************************************************************************)
(* Codec Policy Resolver                                                   *)
(***************************************************************************)
\* Faulty variant: only H.264 video is passed through.
video_decision_h264_only(video) ==
    CASE video.codec = "H264" -> None
      [] OTHER -> Some("H264")

\* The match on video.codec: the value inserted into video_codecs.
video_decision(video) ==
    CASE video.codec = "HEVC" -> None
      [] video.codec = "H264" -> None
      [] OTHER -> Some("H264")

\* Faulty variant: every DTS stream goes to FLAC, whatever its profile.
audio_decision_any_dts(audio) ==
    CASE audio.codec = "FLAC" -> None
      [] audio.codec = "AAC" -> None
      [] audio.codec = "TRUEHD" -> Some("FLAC")
      [] audio.codec = "DTS" -> Some("FLAC")
      [] OTHER -> Some("AAC")

\* The match on audio.codec and audio.profile: the value inserted into
\* audio_codecs.
audio_decision(audio) ==
    CASE audio.codec = "FLAC" -> None
      [] audio.codec = "AAC" -> None
      [] audio.codec = "TRUEHD" -> Some("FLAC")
      [] audio.codec = "DTS" ->
            IF audio.profile = Some("DTS_HD_MA") THEN Some("FLAC") ELSE Some("AAC")
      [] OTHER -> Some("AAC")

\* The match on subtitle.codec: the value inserted into subtitle_codecs.
subtitle_decision(subtitle) ==
    CASE subtitle.codec = "HDMV_PGS_SUBTITLE" -> None
      [] subtitle.codec = "DVD_SUBTITLE" -> None
      [] OTHER -> Some("SSA")

NoCodecs ==
    [panic |-> FALSE, video_codecs |-> EmptyMap, audio_codecs |-> EmptyMap,
     subtitle_codecs |-> EmptyMap]

\* The loop of get_codecs from position k of mappings on.  parsed[index]
\* panics when index is not below parsed.len(); the loop stops there.
RECURSIVE CodecsFrom(_, _, _, _)
CodecsFrom(p, m, k, acc) ==
    IF k > Len(m)
    THEN acc
    ELSE LET index == m[k]
         IN  IF index >= Len(p)
             THEN [acc EXCEPT !.panic = TRUE]
             ELSE LET stream == p[index + 1]
                  IN  CodecsFrom(p, m, k + 1,
                        CASE stream.kind = "Video" ->
                               [acc EXCEPT !.video_codecs =
                                   Insert(@, index, video_decision(stream))]
                          [] stream.kind = "Audio" ->
                               [acc EXCEPT !.audio_codecs =
                                   Insert(@, index, audio_decision(stream))]
                          [] stream.kind = "Subtitle" ->
                               [acc EXCEPT !.subtitle_codecs =
                                   Insert(@, index, subtitle_decision(stream))])

\* get_codecs: panic is TRUE when an index lookup panicked, and otherwise
\* map is the returned HashMap.
get_codecs(p, m) ==
    LET r == CodecsFrom(p, m, 1, NoCodecs)
    IN  [panic |-> r.panic,
         map |-> IF r.panic THEN EmptyMap
                 ELSE Chain(r.video_codecs, Chain(r.audio_codecs, r.subtitle_codecs))]

(***************************************************************************)
(* Plan Reporter                                                           *)
(***************************************************************************)
\* The line print_codec_mapping prints for one entry of codecs.
print_line(p, index, codec) ==
    LET oldcodec == p[index + 1].codec
        newcodec == IF codec = None THEN oldcodec ELSE codec[1]
    IN  [index |-> index, oldcodec |-> oldcodec, newcodec |-> newcodec,
         copy |-> (codec = None)]

\* print_codec_mapping.  The HashMap is iterated in an unspecified order;
\* the lines printed are kept as a set (the keys make them distinct).
print_codec_mapping(p, c) ==
    [panic |-> \E index \in DOMAIN c : index >= Len(p),
     lines |-> { print_line(p, index, c[index]) :
                    index \in { i \in DOMAIN c : i < Len(p) } }]

(***************************************************************************)
(* main                                                                    *)
(***************************************************************************)
Init ==
    /\ \E n \in 0..MaxStreams : file \in Containers(n)
    /\ pc = "start"
    /\ parsed = << >>
    /\ mappings = << >>
    /\ codecs = EmptyMap
    /\ report = {}
    /\ stderr = << >>

\* let parsed = parse_stream_metadata(&file);
ParseStreamMetadata ==
    /\ pc = "start"
    /\ LET r == parse_stream_metadata(file)
       IN  /\ parsed' = r.out
           /\ stderr' = stderr \o r.err
    /\ pc' = "parsed"
    /\ UNCHANGED <<file, mappings, codecs, report>>

\* let mappings = get_mappings(&parsed);
GetMappings ==
    /\ pc = "parsed"
    /\ IF bad_video_count(parsed)
       THEN /\ stderr' = Append(stderr,
                   <<"Erorr: File has video streams", Len(video_mappings(parsed))>>)
            /\ pc' = "exited"
            /\ UNCHANGED mappings
       ELSE /\ mappings' = get_mappings_result(parsed)
            /\ pc' = "mapped"
            /\ UNCHANGED stderr
    /\ UNCHANGED <<file, parsed, codecs, report>>

\* let codecs = get_codecs(&parsed, &mappings);
GetCodecs ==
    /\ pc = "mapped"
    /\ LET r == get_codecs(parsed, mappings)
       IN  IF r.panic
           THEN /\ pc' = "panicked"
                /\ UNCHANGED codecs
           ELSE /\ codecs' = r.map
                /\ pc' = "resolved"
    /\ UNCHANGED <<file, parsed, mappings, report, stderr>>

\* print_codec_mapping(&parsed, &codecs);
PrintCodecMapping ==
    /\ pc = "resolved"
    /\ LET r == print_codec_mapping(parsed, codecs)
       IN  /\ report' = r.lines
           /\ pc' = IF r.panic THEN "panicked" ELSE "done"
    /\ UNCHANGED <<file, parsed, mappings, codecs, stderr>>

Next ==
    \/ ParseStreamMetadata
    \/ GetMappings
    \/ GetCodecs
    \/ PrintCodecMapping

Spec == Init /\ [][Next]_vars

(***************************************************************************)
(* Properties                                                              *)
(***************************************************************************)
\* The container indices of the streams of a medium, and the tagged ones.
IndicesOf(medium) == { i \in 0..(Len(file) - 1) : file[i + 1].medium = medium }
EngIndicesOf(medium) == { i \in IndicesOf(medium) : file[i + 1].language = Some("eng") }
Selected == { mappings[k] : k \in DOMAIN mappings }
SelectorReturned == pc \in {"mapped", "resolved", "panicked", "done"}
ResolverReturned == pc \in {"resolved", "done"}
TwoTier(medium) ==
    IF EngIndicesOf(medium) # {} THEN EngIndicesOf(medium) ELSE IndicesOf(medium)

\* C1: whenever get_mappings returns, the selected audio indices are the
\* "eng"-tagged audio streams if there is one and all audio streams otherwise
\* (possibly none), and the same holds, independently, for the subtitles.
C1_TwoTierSelection ==
    SelectorReturned =>
        /\ Selected \cap IndicesOf("Audio") = TwoTier("Audio")
        /\ Selected \cap IndicesOf("Subtitle") = TwoTier("Subtitle")

\* C1 witness: the English subset of the audio streams is selected and is not
\* the whole audio group, in a file without subtitles.
C1_Witness ==
    /\ pc = "mapped"
    /\ EngIndicesOf("Audio") # {}
    /\ EngIndicesOf("Audio") # IndicesOf("Audio")
    /\ Selected \cap IndicesOf("Audio") = EngIndicesOf("Audio")
    /\ IndicesOf("Subtitle") = {}

\* C1 witness of the independence: the audio group is the English subset
\* while the subtitle group is the fallback to all subtitles.
C1_WitnessIndependent ==
    /\ pc = "mapped"
    /\ EngIndicesOf("Audio") # {}
    /\ EngIndicesOf("Subtitle") = {}
    /\ IndicesOf("Subtitle") # {}
    /\ IndicesOf("Subtitle") \subseteq Selected

\* C2: with exactly one video stream get_mappings succeeds and the selection
\* holds that stream's index exactly once and no other video index.
C2_OneVideoSelected ==
    (pc \notin {"start", "parsed"} /\ Cardinality(IndicesOf("Video")) = 1) =>
        /\ pc # "exited"
        /\ \A v \in IndicesOf("Video") :
              Cardinality({ k \in DOMAIN mappings : mappings[k] = v }) = 1
        /\ \A k \in DOMAIN mappings :
              (mappings[k] \notin IndicesOf("Video")) =>
                  mappings[k] \in IndicesOf("Audio") \cup IndicesOf("Subtitle")

\* C2 witness: one video stream that is not the first stream of the container
\* has been selected.
C2_Witness ==
    /\ pc = "mapped"
    /\ Cardinality(IndicesOf("Video")) = 1
    /\ 0 \notin IndicesOf("Video")
    /\ IndicesOf("Data") # {}
    /\ mappings[1] \in IndicesOf("Video")

\* C3: with zero or more than one video stream the selector ends the run with
\* an error that carries the number of video streams; no selection, no codec
\* decision and no report line exists then or later.
C3_BadVideoCountIsFatal ==
    (pc \notin {"start", "parsed"} /\ Cardinality(IndicesOf("Video")) # 1) =>
        /\ pc = "exited"
        /\ Len(stderr) > 0
        /\ stderr[Len(stderr)] =
              <<"Erorr: File has video streams", Cardinality(IndicesOf("Video"))>>
        /\ mappings = << >>
        /\ codecs = EmptyMap
        /\ report = {}

\* C3 witness: a file with two video streams and an audio or a subtitle
\* stream has been rejected.
C3_Witness ==
    /\ pc = "exited"
    /\ Cardinality(IndicesOf("Video")) = 2
    /\ IndicesOf("Audio") \cup IndicesOf("Subtitle") # {}

\* C3 witness of the other case: a file without video stream is rejected.
C3_WitnessNoVideo ==
    /\ pc = "exited"
    /\ IndicesOf("Video") = {}
    /\ IndicesOf("Audio") # {}

\* The audio decision table of the specification.
AudioTable(codec, profile) ==
    IF codec \in {"FLAC", "AAC"} THEN None
    ELSE IF codec = "TRUEHD" THEN Some("FLAC")
    ELSE IF codec = "DTS" /\ profile = Some("DTS_HD_MA") THEN Some("FLAC")
    ELSE Some("AAC")

\* C4: the decision stored for an index whose descriptor read by the resolver
\* is an audio descriptor is the one the table gives for that descriptor's
\* codec and profile.
C4_AudioDecisionTable ==
    ResolverReturned =>
        \A i \in DOMAIN codecs :
            parsed[i + 1].kind = "Audio" =>
                codecs[i] = AudioTable(parsed[i + 1].codec, parsed[i + 1].profile)

\* C4 witness: a DTS HD-MA stream goes to FLAC and a DTS stream with another
\* profile or none goes to AAC in the same file.
C4_Witness ==
    /\ pc = "resolved"
    /\ \E i, j \in DOMAIN codecs :
          /\ parsed[i + 1].kind = "Audio" /\ parsed[j + 1].kind = "Audio"
          /\ parsed[i + 1].codec = "DTS" /\ parsed[j + 1].codec = "DTS"
          /\ parsed[i + 1].profile = Some("DTS_HD_MA")
          /\ parsed[j + 1].profile # Some("DTS_HD_MA")
          /\ codecs[i] = Some("FLAC")
          /\ codecs[j] = Some("AAC")

\* C5: the decision stored for an index whose descriptor read by the resolver
\* is a video descriptor is pass-through for H.264 and HEVC and H.264
\* otherwise; for a subtitle descriptor it is pass-through for PGS and DVD
\* subtitles and SSA otherwise.
C5_VideoSubtitleDecisionTable ==
    ResolverReturned =>
        \A i \in DOMAIN codecs :
            LET d == parsed[i + 1]
            IN  /\ d.kind = "Video" =>
                      codecs[i] = IF d.codec \in {"H264", "HEVC"}
                                  THEN None ELSE Some("H264")
                /\ d.kind = "Subtitle" =>
                      codecs[i] = IF d.codec \in {"HDMV_PGS_SUBTITLE", "DVD_SUBTITLE"}
                                  THEN None ELSE Some("SSA")

\* C5 witness: an HEVC video stream that is not progressive is passed
\* through and a text subtitle without "eng" tag goes to SSA.
C5_Witness ==
    /\ pc = "resolved"
    /\ \E i, j \in DOMAIN codecs :
          /\ parsed[i + 1].kind = "Video" /\ parsed[i + 1].codec = "HEVC"
          /\ parsed[i + 1].field_order = "Interlaced"
          /\ codecs[i] = None
          /\ parsed[j + 1].kind = "Subtitle" /\ parsed[j + 1].codec = "SUBRIP"
          /\ codecs[j] = Some("SSA")

\* The descriptor that carries a given stream index, and the decision the
\* tables give for a descriptor.
DescriptorOf(i) == CHOOSE d \in { parsed[k] : k \in DOMAIN parsed } : d.index = i
DecisionFor(d) ==
    CASE d.kind = "Video" -> video_decision(d)
      [] d.kind = "Audio" -> audio_decision(d)
      [] d.kind = "Subtitle" -> subtitle_decision(d)

\* C6: every pass-through line of the report shows the stream's own codec as
\* the new codec, and every transcode line shows a new codec that differs
\* from the stream's own codec.
C6_TranscodeChangesCodec ==
    pc = "done" =>
        \A line \in report :
            LET source == file[line.index + 1].id
            IN  IF line.copy
                THEN line.newcodec = source
                ELSE line.newcodec # source

\* C7: once the selector has returned, get_codecs does not fail, and the keys
\* of the map it returns are exactly the selected indices.
C7_DecisionPerSelectedIndex ==
    /\ pc # "panicked"
    /\ ResolverReturned => DOMAIN codecs = Selected

\* C8: the selection is the video indices, then the audio indices, then the
\* subtitle indices, each group strictly ascending, and no index twice.
C8_GroupOrder ==
    SelectorReturned =>
        /\ \E a, b \in 0..Len(mappings) :
              /\ a <= b
              /\ \A k \in DOMAIN mappings :
                    mappings[k] \in IndicesOf(IF k <= a THEN "Video"
                                              ELSE IF k <= b THEN "Audio"
                                              ELSE "Subtitle")
              /\ \A j, k \in DOMAIN mappings :
                    (j < k /\ ((k <= a) \/ (j > a /\ k <= b) \/ (j > b))) =>
                        mappings[j] < mappings[k]
        /\ \A j, k \in DOMAIN mappings : j # k => mappings[j] # mappings[k]

\* C8 witness: the video stream is the last stream of the container, so the
\* selection as a whole is not ascending; the audio group is the English
\* subset and the subtitle group is the fallback to all subtitles.
C8_Witness ==
    /\ pc = "mapped"
    /\ Len(mappings) = 3
    /\ mappings[1] > mappings[2]
    /\ EngIndicesOf("Audio") # {}
    /\ EngIndicesOf("Subtitle") = {}
    /\ IndicesOf("Subtitle") # {}

\* C9: the decision stored under a selected index and the old codec printed
\* for it come from the descriptor whose index field is that index, and no
\* lookup leaves the range of the classified list.
C9_IndexIsStableIdentifier ==
    /\ pc # "panicked"
    /\ ResolverReturned =>
          \A i \in DOMAIN codecs : codecs[i] = DecisionFor(DescriptorOf(i))
    /\ pc = "done" =>
          \A line \in report : line.oldcodec = DescriptorOf(line.index).codec

\* C10: the classified list holds, in container order and with the container
\* index, exactly the video, audio and subtitle streams; a failed field-order
\* probe gives Unknown and a missing language tag gives None.
C10_Classification ==
    pc # "start" =>
        LET kept == IndicesOf("Video") \cup IndicesOf("Audio") \cup IndicesOf("Subtitle")
        IN  /\ Len(parsed) = Cardinality(kept)
            /\ \A k \in DOMAIN parsed :
                  /\ parsed[k].index \in kept
                  /\ parsed[k].kind = file[parsed[k].index + 1].medium
                  /\ parsed[k].codec = file[parsed[k].index + 1].id
                  /\ parsed[k].kind \in {"Audio", "Subtitle"} =>
                        parsed[k].lang = file[parsed[k].index + 1].language
                  /\ (parsed[k].kind = "Video"
                        /\ file[parsed[k].index + 1].field_order = "Err") =>
                        parsed[k].field_order = "Unknown"
            /\ \A j, k \in DOMAIN parsed : j < k => parsed[j].index < parsed[k].index

\* C10 witness: a data stream was dropped in front of a video stream whose
\* probe failed and an audio stream without language tag.
C10_Witness ==
    /\ pc = "parsed"
    /\ IndicesOf("Data") \cup IndicesOf("Attachment") # {}
    /\ \E j, k \in DOMAIN parsed :
          /\ parsed[j].kind = "Video"
          /\ file[parsed[j].index + 1].field_order = "Err"
          /\ parsed[j].index # j - 1
          /\ parsed[k].kind = "Audio"
          /\ parsed[k].lang = None

====
